---- MODULE Spec2Model ----
(***************************************************************************)
(* Model of GenerateModuleJniCpp.js (react-native-codegen): the translation *)
(* of a native-module schema into JNI method descriptors, invocation       *)
(* thunks, registration entries and the module lookup function.            *)
(*                                                                         *)
(* Text that the generator concatenates (JNI tokens, descriptors, the      *)
(* decimal argument count) is a sequence of one-character strings, so that *)
(* join('') is sequence concatenation and a descriptor can be parsed back. *)
(* Names and tags, which are only ever compared, are plain strings.        *)
(***************************************************************************)
EXTENDS Integers, Sequences, FiniteSets, TLC

VARIABLES
    pc,            \* position of the run: "start", "done" or "threw"
    param,         \* input of translateParamTypeToJniType
    typeAnnotation,\* input of the two return-type translators
    aliases,       \* alias table handed to the method-level translators
    property,      \* input method of the method-level translators
    schema,        \* input of generate(): the ordered groups of schema.modules
    jniType,       \* result of translateParamTypeToJniType
    returnJniType, \* result of translateReturnTypeToJniType
    kind,          \* result of translateReturnTypeToKind
    signature,     \* result of translateMethodTypeToJniSignature
    implementation,\* result of translateMethodForImplementation
    files          \* result of generate()

vars ==
    <<pc, param, typeAnnotation, aliases, property, schema, jniType,
      returnJniType, kind, signature, implementation, files>>

----------------------------------------------------------------------------
(* Bounds of the explored inputs.                                          *)

MaxParams == 2
MaxMethods == 2
MaxGroups == 2

----------------------------------------------------------------------------
(* The JNI type descriptor literals of the translators.                    *)

\* 'D'
JNI_D ==
    <<"D">>

\* 'V'
JNI_V ==
    <<"V">>

\* 'Z'
JNI_Z ==
    <<"Z">>

\* 'Ljava/lang/String;'
JNI_String ==
    <<"L","j","a","v","a","/","l","a","n","g","/","S","t","r","i","n","g",
      ";">>

\* 'Ljava/lang/Boolean'
JNI_Boolean ==
    <<"L","j","a","v","a","/","l","a","n","g","/","B","o","o","l","e","a",
      "n">>

\* 'Ljava/lang/Double;'
JNI_Double ==
    <<"L","j","a","v","a","/","l","a","n","g","/","D","o","u","b","l","e",
      ";">>

\* 'Lcom/facebook/react/bridge/Promise;'
JNI_Promise ==
    <<"L","c","o","m","/","f","a","c","e","b","o","o","k","/","r","e","a",
      "c","t","/","b","r","i","d","g","e","/","P","r","o","m","i","s","e",
      ";">>

\* 'Lcom/facebook/react/bridge/ReadableMap;'
JNI_ReadableMap ==
    <<"L","c","o","m","/","f","a","c","e","b","o","o","k","/","r","e","a",
      "c","t","/","b","r","i","d","g","e","/","R","e","a","d","a","b","l",
      "e","M","a","p",";">>

\* 'Lcom/facebook/react/bridge/ReadableArray;'
JNI_ReadableArray ==
    <<"L","c","o","m","/","f","a","c","e","b","o","o","k","/","r","e","a",
      "c","t","/","b","r","i","d","g","e","/","R","e","a","d","a","b","l",
      "e","A","r","r","a","y",";">>

\* 'Lcom/facebook/react/bridge/Callback;'
JNI_Callback ==
    <<"L","c","o","m","/","f","a","c","e","b","o","o","k","/","r","e","a",
      "c","t","/","b","r","i","d","g","e","/","C","a","l","l","b","a","c",
      "k",";">>

\* 'Lcom/facebook/react/bridge/WritableMap;'
JNI_WritableMap ==
    <<"L","c","o","m","/","f","a","c","e","b","o","o","k","/","r","e","a",
      "c","t","/","b","r","i","d","g","e","/","W","r","i","t","a","b","l",
      "e","M","a","p",";">>

\* 'Lcom/facebook/react/bridge/WritableArray;'
JNI_WritableArray ==
    <<"L","c","o","m","/","f","a","c","e","b","o","o","k","/","r","e","a",
      "c","t","/","b","r","i","d","g","e","/","W","r","i","t","a","b","l",
      "e","A","r","r","a","y",";">>

\* 'Ljava/util/Map;'
JNI_Map ==
    <<"L","j","a","v","a","/","u","t","i","l","/","M","a","p",";">>

----------------------------------------------------------------------------
(* Results.  A call either returns a value or throws; nothing in the file  *)
(* catches, so a throw inside a callee is the caller's result.              *)

NoError == [message |-> "", found |-> ""]

Ok(v) == [ok |-> TRUE, value |-> v, error |-> NoError]

Throw(message, found) ==
    [ok |-> FALSE, value |-> <<>>, error |-> [message |-> message, found |-> found]]

(* An optional value (null / undefined or present) is a sequence of length *)
(* zero or one.                                                            *)
Null == <<>>

Some(v) == <<v>>

----------------------------------------------------------------------------
(* Utils.getTypeAliasTypeAnnotation: the alias table maps an alias name to *)
(* its concrete annotation; a name that is absent is a hard failure.       *)

getTypeAliasTypeAnnotation(name, aliasTable) ==
    IF name \in DOMAIN aliasTable
    THEN Ok(aliasTable[name])
    ELSE Throw("Unable to find type annotation for alias", name)

----------------------------------------------------------------------------
(* translateReturnTypeToKind                                               *)

translateReturnTypeToKind(t) ==
    CASE t.type = "ReservedFunctionValueTypeAnnotation" ->
            IF t.name = "RootTag"
            THEN Ok("NumberKind")
            ELSE Throw("Invalid ReservedFunctionValueTypeName name, got", t.name)
      [] t.type = "VoidTypeAnnotation" -> Ok("VoidKind")
      [] t.type = "StringTypeAnnotation" -> Ok("StringKind")
      [] t.type = "BooleanTypeAnnotation" -> Ok("BooleanKind")
      [] t.type \in {"NumberTypeAnnotation", "DoubleTypeAnnotation",
                     "FloatTypeAnnotation", "Int32TypeAnnotation"} ->
            Ok("NumberKind")
      [] t.type = "GenericPromiseTypeAnnotation" -> Ok("PromiseKind")
      [] t.type \in {"GenericObjectTypeAnnotation", "ObjectTypeAnnotation"} ->
            Ok("ObjectKind")
      [] t.type = "ArrayTypeAnnotation" -> Ok("ArrayKind")
      [] OTHER -> Throw("Unknown prop type for returning value, found:", t.type)

----------------------------------------------------------------------------
(* translateParamTypeToJniType                                             *)

realTypeAnnotation_unresolved(param_, aliasTable) ==
    Ok(param_.typeAnnotation)

(* The annotation the switch looks at: the alias target for an alias       *)
(* reference, the annotation itself otherwise.                             *)
realTypeAnnotation(param_, aliasTable) ==
    IF param_.typeAnnotation.type = "TypeAliasTypeAnnotation"
    THEN getTypeAliasTypeAnnotation(param_.typeAnnotation.name, aliasTable)
    ELSE Ok(param_.typeAnnotation)

(* The switch over the resolved annotation's tag; nullable is the          *)
(* parameter's own flag.                                                   *)
ParamTypeSwitch(real, nullable) ==
    CASE real.type = "ReservedFunctionValueTypeAnnotation" ->
            IF real.name = "RootTag"
            THEN Ok(JNI_D)
            ELSE Throw("Invalid ReservedFunctionValueTypeName name, got", real.name)
      [] real.type = "VoidTypeAnnotation" -> Ok(JNI_V)
      [] real.type = "StringTypeAnnotation" -> Ok(JNI_String)
      [] real.type = "BooleanTypeAnnotation" ->
            IF nullable THEN Ok(JNI_Boolean) ELSE Ok(JNI_Z)
      [] real.type \in {"NumberTypeAnnotation", "DoubleTypeAnnotation",
                        "FloatTypeAnnotation", "Int32TypeAnnotation"} ->
            IF nullable THEN Ok(JNI_Double) ELSE Ok(JNI_D)
      [] real.type = "GenericPromiseTypeAnnotation" -> Ok(JNI_Promise)
      [] real.type \in {"GenericObjectTypeAnnotation", "ObjectTypeAnnotation"} ->
            Ok(JNI_ReadableMap)
      [] real.type = "ArrayTypeAnnotation" -> Ok(JNI_ReadableArray)
      [] real.type = "FunctionTypeAnnotation" -> Ok(JNI_Callback)
      [] OTHER -> Throw("Unknown prop type for method arg, found:", real.type)

translateParamTypeToJniType_rejectNullable(param_, aliasTable) ==
    LET real == realTypeAnnotation(param_, aliasTable)
    IN  IF ~real.ok THEN real
        ELSE IF param_.nullable
                /\ real.value.type \in {"GenericObjectTypeAnnotation",
                                        "ObjectTypeAnnotation",
                                        "ArrayTypeAnnotation",
                                        "FunctionTypeAnnotation"}
             THEN Throw("Unknown prop type for method arg, found:", real.value.type)
             ELSE ParamTypeSwitch(real.value, param_.nullable)

translateParamTypeToJniType(param_, aliasTable) ==
    LET real == realTypeAnnotation(param_, aliasTable)
    IN  IF ~real.ok THEN real ELSE ParamTypeSwitch(real.value, param_.nullable)

----------------------------------------------------------------------------
(* translateReturnTypeToJniType                                            *)

translateReturnTypeToJniType(t) ==
    CASE t.type = "ReservedFunctionValueTypeAnnotation" ->
            IF t.name = "RootTag"
            THEN Ok(JNI_D)
            ELSE Throw("Invalid ReservedFunctionValueTypeName name, got", t.name)
      [] t.type = "VoidTypeAnnotation" -> Ok(JNI_V)
      [] t.type = "StringTypeAnnotation" -> Ok(JNI_String)
      [] t.type = "BooleanTypeAnnotation" ->
            IF t.nullable THEN Ok(JNI_Boolean) ELSE Ok(JNI_Z)
      [] t.type \in {"NumberTypeAnnotation", "DoubleTypeAnnotation",
                     "FloatTypeAnnotation", "Int32TypeAnnotation"} ->
            IF t.nullable THEN Ok(JNI_Double) ELSE Ok(JNI_D)
      [] t.type = "GenericPromiseTypeAnnotation" -> Ok(JNI_Promise)
      [] t.type \in {"GenericObjectTypeAnnotation", "ObjectTypeAnnotation"} ->
            Ok(JNI_WritableMap)
      [] t.type = "ArrayTypeAnnotation" -> Ok(JNI_WritableArray)
      [] OTHER -> Throw("Unknown prop type for method return type, found:", t.type)

----------------------------------------------------------------------------
(* translateMethodTypeToJniSignature                                       *)

isPromiseReturn(returnTypeAnnotation) ==
    returnTypeAnnotation.type = "GenericPromiseTypeAnnotation"

(* A promise return is replaced by a non-nullable void for the return      *)
(* part of the descriptor.                                                 *)
processedReturnTypeAnnotation(returnTypeAnnotation) ==
    IF isPromiseReturn(returnTypeAnnotation)
    THEN [nullable |-> FALSE, type |-> "VoidTypeAnnotation"]
    ELSE returnTypeAnnotation

(* The first throw of a sequence of results, else all their values.        *)
Collect(rs) ==
    LET bad == {i \in 1..Len(rs) : ~rs[i].ok}
    IN  IF bad # {}
        THEN rs[CHOOSE i \in bad : \A j \in bad : i <= j]
        ELSE Ok([i \in 1..Len(rs) |-> rs[i].value])

MapParams_skipFailures(params, aliasTable) ==
    LET rs == [i \in 1..Len(params) |->
                  translateParamTypeToJniType(params[i], aliasTable)]
    IN  Ok([i \in 1..Len(params) |-> IF rs[i].ok THEN rs[i].value ELSE <<>>])

(* params.map(t => translateParamTypeToJniType(t, aliases)): the tokens in *)
(* parameter order, or the throw of the first parameter that fails.        *)
MapParams(params, aliasTable) ==
    Collect([i \in 1..Len(params) |->
                translateParamTypeToJniType(params[i], aliasTable)])

argsSignatureParts_noPromiseArg(property_, aliasTable) ==
    MapParams(property_.typeAnnotation.params, aliasTable)

(* The mapped parameter tokens, with the promise token pushed at the end   *)
(* for a promise return.                                                   *)
argsSignatureParts(property_, aliasTable) ==
    LET returnTypeAnnotation == property_.typeAnnotation.returnTypeAnnotation
        mapped == MapParams(property_.typeAnnotation.params, aliasTable)
    IN  IF ~mapped.ok THEN mapped
        ELSE IF isPromiseReturn(returnTypeAnnotation)
        THEN LET extra == translateReturnTypeToJniType(returnTypeAnnotation)
             IN  IF ~extra.ok THEN extra
                 ELSE Ok(Append(mapped.value, extra.value))
        ELSE mapped

RECURSIVE Join(_)
(* parts.join('')                                                          *)
Join(parts) ==
    IF parts = <<>> THEN <<>> ELSE Head(parts) \o Join(Tail(parts))

returnSignature_noOverride(property_) ==
    translateReturnTypeToJniType(
        processedReturnTypeAnnotation(property_.typeAnnotation.returnTypeAnnotation))

returnSignature(property_) ==
    IF property_.name = "getConstants"
    THEN Ok(JNI_Map)
    ELSE translateReturnTypeToJniType(
             processedReturnTypeAnnotation(
                 property_.typeAnnotation.returnTypeAnnotation))

translateMethodTypeToJniSignature(property_, aliasTable) ==
    LET args == argsSignatureParts(property_, aliasTable)
    IN  IF ~args.ok THEN args
        ELSE LET ret == returnSignature(property_)
             IN  IF ~ret.ok THEN ret
                 ELSE Ok(<<"(">> \o Join(args.value) \o <<")">> \o ret.value)

----------------------------------------------------------------------------
(* translateMethodForImplementation                                        *)

(* The test that makes translateMethodForImplementation return ''.         *)
isEmptyGetConstants(property_) ==
    LET returnTypeAnnotation == property_.typeAnnotation.returnTypeAnnotation
    IN  /\ property_.name = "getConstants"
        /\ returnTypeAnnotation.type = "ObjectTypeAnnotation"
        /\ returnTypeAnnotation.properties # Null
        /\ Len(returnTypeAnnotation.properties[1]) = 0

(* The invocation thunk of one method: '' (Null) for the empty             *)
(* getConstants, otherwise propertyTemplate with its kind, name and        *)
(* signature filled in, in that order of evaluation.  The template has no  *)
(* ::_ARGS_:: placeholder, so the argument-name list never reaches the     *)
(* text.                                                                   *)
translateMethodForImplementation(property_, aliasTable) ==
    IF isEmptyGetConstants(property_) THEN Ok(Null)
    ELSE LET k == translateReturnTypeToKind(
                      property_.typeAnnotation.returnTypeAnnotation)
         IN  IF ~k.ok THEN k
             ELSE LET sig == translateMethodTypeToJniSignature(property_, aliasTable)
                  IN  IF ~sig.ok THEN sig
                      ELSE Ok(Some([kind |-> k.value,
                                    propertyName |-> property_.name,
                                    signature |-> sig.value]))

----------------------------------------------------------------------------
(* generate                                                                *)

(* A JavaScript object with string keys is a sequence of [key, value]      *)
(* entries in insertion order, which is the order Object.keys enumerates   *)
(* (keys here are identifiers, never canonical array indices).             *)
ObjectKeys(object) ==
    [i \in 1..Len(object) |-> object[i].key]

Get(object, key) ==
    object[CHOOSE i \in 1..Len(object) : object[i].key = key].value

Set_keepFirst(object, key, value) ==
    IF \E i \in 1..Len(object) : object[i].key = key
    THEN object
    ELSE Append(object, [key |-> key, value |-> value])

(* object[key] = value: an existing key keeps its position and takes the   *)
(* new value, a new key goes last.                                         *)
Set(object, key, value) ==
    IF \E i \in 1..Len(object) : object[i].key = key
    THEN [i \in 1..Len(object) |->
             IF object[i].key = key
             THEN [key |-> key, value |-> value]
             ELSE object[i]]
    ELSE Append(object, [key |-> key, value |-> value])

RECURSIVE ObjectAssign(_, _)
(* Object.assign(acc, source)                                              *)
ObjectAssign(acc, source) ==
    IF source = <<>> THEN acc
    ELSE ObjectAssign(Set(acc, Head(source).key, Head(source).value),
                      Tail(source))

RECURSIVE Flatten(_, _)
(* The reduce over the groups of schema.modules, in key order; a group     *)
(* whose nativeModules is null is filtered out.                            *)
Flatten(groups, acc) ==
    IF groups = <<>> THEN acc
    ELSE LET modules == Head(groups).nativeModules
         IN  IF modules = Null
             THEN Flatten(Tail(groups), acc)
             ELSE Flatten(Tail(groups), ObjectAssign(acc, modules[1]))

Digit(d) ==
    <<"0", "1", "2", "3", "4", "5", "6", "7", "8", "9">>[d + 1]

RECURSIVE toString(_)
(* Number.prototype.toString of a non-negative integer                     *)
toString(n) ==
    IF n < 10 THEN <<Digit(n)>>
    ELSE toString(n \div 10) \o <<Digit(n % 10)>>

isEmptyGetConstantsDef_anyProperties(property_) ==
    LET returnTypeAnnotation == property_.typeAnnotation.returnTypeAnnotation
    IN  /\ property_.name = "getConstants"
        /\ returnTypeAnnotation.type = "ObjectTypeAnnotation"

(* The test that leaves a method out of the registration table.            *)
isEmptyGetConstantsDef(property_) ==
    LET returnTypeAnnotation == property_.typeAnnotation.returnTypeAnnotation
    IN  /\ property_.name = "getConstants"
        /\ returnTypeAnnotation.type = "ObjectTypeAnnotation"
        /\ returnTypeAnnotation.properties # Null
        /\ Len(returnTypeAnnotation.properties[1]) = 0

argsCount_withPromise(property_) ==
    toString(Len(property_.typeAnnotation.params)
             + (IF isPromiseReturn(property_.typeAnnotation.returnTypeAnnotation)
                THEN 1 ELSE 0))

(* params.length.toString()                                                *)
argsCount(property_) ==
    toString(Len(property_.typeAnnotation.params))

(* One line of the registration table: '' (Null) for the empty             *)
(* getConstants, otherwise propertyDefTemplate with the method name and    *)
(* the argument count.                                                     *)
propertyDef(property_) ==
    IF isEmptyGetConstantsDef(property_) THEN Null
    ELSE Some([propertyName |-> property_.name,
               argsCount |-> argsCount(property_)])

(* properties.map(property => translateMethodForImplementation(...))       *)
translatedMethods(properties, aliasTable) ==
    Collect([i \in 1..Len(properties) |->
                translateMethodForImplementation(properties[i], aliasTable)])

propertiesMap_reversed(properties) ==
    [i \in 1..Len(properties) |->
        propertyDef(properties[Len(properties) + 1 - i])]

(* properties.map(... propertyDefTemplate ...)                             *)
propertiesMap(properties) ==
    [i \in 1..Len(properties) |-> propertyDef(properties[i])]

(* moduleTemplate filled in for one module: its invocation thunks, then    *)
(* its registration table, under its name.                                 *)
moduleText(name, nativeModule) ==
    LET methods == translatedMethods(nativeModule.properties, nativeModule.aliases)
    IN  IF ~methods.ok THEN methods
        ELSE Ok([moduleName |-> name,
                 methodInvokers |-> methods.value,
                 propertiesMap |-> propertiesMap(nativeModule.properties)])

(* generate(libraryName, schema, moduleSpecName): the single output file,  *)
(* as its ordered module blocks and the ordered checks of the lookup       *)
(* function; a throw while a module is translated leaves no file.          *)
generate(groups) ==
    LET nativeModules == Flatten(groups, <<>>)
        names == ObjectKeys(nativeModules)
        modules == Collect([i \in 1..Len(names) |->
                               moduleText(names[i], Get(nativeModules, names[i]))])
        moduleLookup == ObjectKeys(nativeModules)
    IN  IF ~modules.ok THEN modules
        ELSE Ok([modules |-> modules.value, moduleLookup |-> moduleLookup])

----------------------------------------------------------------------------
(* Inputs.                                                                 *)

(* The tags of FunctionTypeAnnotationParamTypeAnnotation other than the    *)
(* reserved scalar and the alias reference.                                *)
PlainTags ==
    {"VoidTypeAnnotation", "StringTypeAnnotation", "BooleanTypeAnnotation",
     "NumberTypeAnnotation", "DoubleTypeAnnotation", "FloatTypeAnnotation",
     "Int32TypeAnnotation", "GenericPromiseTypeAnnotation",
     "GenericObjectTypeAnnotation", "ObjectTypeAnnotation",
     "ArrayTypeAnnotation", "FunctionTypeAnnotation"}

ClosedTags ==
    PlainTags \cup {"ReservedFunctionValueTypeAnnotation"}

(* A tag outside the closed set.                                           *)
UnknownTag == "UnionTypeAnnotation"

(* A parameter's annotation or an alias target: the parameter, not the     *)
(* annotation, carries nullable.                                           *)
Annotation(type, name) == [type |-> type, name |-> name]

(* A return annotation carries its own nullable flag, and its property     *)
(* list when it is a structural object.                                    *)
ReturnAnnotation(type, name, nullable, properties) ==
    [type |-> type, name |-> name, nullable |-> nullable,
     properties |-> properties]

Param(name, nullable, annotation) ==
    [name |-> name, nullable |-> nullable, typeAnnotation |-> annotation]

Method(name, params, returnTypeAnnotation) ==
    [name |-> name,
     typeAnnotation |-> [params |-> params,
                         returnTypeAnnotation |-> returnTypeAnnotation]]

NativeModule(aliasTable, properties) ==
    [aliases |-> aliasTable, properties |-> properties]

Group(nativeModules) == [nativeModules |-> nativeModules]

NoAliases == [n \in {} |-> Annotation("", "")]

ConcreteAnnotations ==
    {Annotation(t, "") : t \in PlainTags \cup {UnknownTag}}
    \cup {Annotation("ReservedFunctionValueTypeAnnotation", n) :
             n \in {"RootTag", "Other"}}

AliasTables ==
    {NoAliases} \cup {[n \in {"T"} |-> a] : a \in ConcreteAnnotations}

TranslateParams ==
    {Param("arg", nullable, a) :
        nullable \in BOOLEAN,
        a \in ConcreteAnnotations \cup {Annotation("TypeAliasTypeAnnotation", "T")}}

TranslateReturns ==
    {ReturnAnnotation(a.type, a.name, nullable, Null) :
        a \in ConcreteAnnotations \cup {Annotation("TypeAliasTypeAnnotation", "T")},
        nullable \in BOOLEAN}
    \cup {ReturnAnnotation("ObjectTypeAnnotation", "", nullable, Some(ps)) :
             nullable \in BOOLEAN, ps \in {<<>>, <<"p">>}}

(* Sequences over S of length at most n.                                   *)
SeqUpTo(S, n) == UNION {[1..k -> S] : k \in 0..n}

(* Sequences without repetition over S, of length 1 to n.                  *)
DistinctSeqUpTo(S, n) ==
    {s \in UNION {[1..k -> S] : k \in 1..n} :
        \A i, j \in 1..Len(s) : i # j => s[i] # s[j]}

SignatureParams ==
    {Param("s", FALSE, Annotation("StringTypeAnnotation", "")),
     Param("b", TRUE, Annotation("BooleanTypeAnnotation", "")),
     Param("n", FALSE, Annotation("NumberTypeAnnotation", "")),
     Param("o", TRUE, Annotation("ObjectTypeAnnotation", "")),
     Param("t", TRUE, Annotation("TypeAliasTypeAnnotation", "T")),
     Param("u", FALSE, Annotation(UnknownTag, ""))}

SignatureReturns ==
    {ReturnAnnotation(t, "", nullable, Null) :
        t \in {"VoidTypeAnnotation", "StringTypeAnnotation",
               "BooleanTypeAnnotation", "NumberTypeAnnotation",
               "GenericPromiseTypeAnnotation", "GenericObjectTypeAnnotation",
               "ObjectTypeAnnotation", "ArrayTypeAnnotation",
               "FunctionTypeAnnotation", UnknownTag},
        nullable \in BOOLEAN}
    \cup {ReturnAnnotation("ObjectTypeAnnotation", "", FALSE, Some(ps)) :
             ps \in {<<>>, <<"p">>}}
    \cup {ReturnAnnotation("ReservedFunctionValueTypeAnnotation", "RootTag",
                           FALSE, Null)}

SignatureAliasTables ==
    {NoAliases, [n \in {"T"} |-> Annotation("BooleanTypeAnnotation", "")]}

SignatureMethods ==
    {Method(name, params, ret) :
        name \in {"getConstants", "add"},
        params \in SeqUpTo(SignatureParams, MaxParams),
        ret \in SignatureReturns}

DefaultParam == Param("arg", FALSE, Annotation("StringTypeAnnotation", ""))

DefaultReturn == ReturnAnnotation("VoidTypeAnnotation", "", FALSE, Null)

DefaultMethod == Method("add", <<>>, DefaultReturn)

NotCalled ==
    [ok |-> FALSE, value |-> <<>>,
     error |-> [message |-> "not called", found |-> ""]]

ModuleNames == {"A", "B"}

StringParam == Param("url", FALSE, Annotation("StringTypeAnnotation", ""))

UnknownParam == Param("x", FALSE, Annotation(UnknownTag, ""))

EmptyObjectReturn ==
    ReturnAnnotation("ObjectTypeAnnotation", "", FALSE, Some(<<>>))

(* The methods of the schemas handed to generate(): a promise method, the  *)
(* empty getConstants (with and without a parameter), a getConstants with  *)
(* one constant, and methods whose parameter or return tag is unknown.     *)
SchemaMethods ==
    {Method("fetch", <<StringParam>>,
            ReturnAnnotation("GenericPromiseTypeAnnotation", "", FALSE, Null)),
     Method("getConstants", <<>>, EmptyObjectReturn),
     Method("getConstants", <<UnknownParam>>, EmptyObjectReturn),
     Method("getConstants", <<>>,
            ReturnAnnotation("ObjectTypeAnnotation", "", FALSE, Some(<<"p">>))),
     Method("send", <<StringParam, UnknownParam>>, DefaultReturn),
     Method("read", <<>>, ReturnAnnotation(UnknownTag, "", FALSE, Null))}

SchemaModules ==
    {NativeModule(NoAliases, ps) : ps \in SeqUpTo(SchemaMethods, MaxMethods)}

(* One group holding module A, or modules A and B in that order.           *)
Schemas ==
    {<<Group(Some(<<[key |-> "A", value |-> a]>>))>> : a \in SchemaModules}
    \cup {<<Group(Some(<<[key |-> "A", value |-> a],
                         [key |-> "B", value |-> b]>>))>> :
             a \in SchemaModules, b \in SchemaModules}

(* Two methods that both emit, and a module whose only method throws.     *)
FlattenMethods ==
    {Method("fetch", <<StringParam>>,
            ReturnAnnotation("GenericPromiseTypeAnnotation", "", FALSE, Null)),
     Method("getConstants", <<>>,
            ReturnAnnotation("ObjectTypeAnnotation", "", FALSE, Some(<<"p">>)))}

ThrowingModule ==
    NativeModule(NoAliases,
                 <<Method("read", <<>>,
                          ReturnAnnotation(UnknownTag, "", FALSE, Null))>>)

FlattenModules ==
    {NativeModule(NoAliases, ps) :
        ps \in DistinctSeqUpTo(FlattenMethods, MaxMethods)}
    \cup {ThrowingModule}

(* The objects with one or two of the module names as keys, in either      *)
(* order.                                                                  *)
FlattenObjects ==
    {<<[key |-> k, value |-> v]>> : k \in ModuleNames, v \in FlattenModules}
    \cup {<<[key |-> k[1], value |-> v[1]], [key |-> k[2], value |-> v[2]]>> :
             k \in {kk \in ModuleNames \X ModuleNames : kk[1] # kk[2]},
             v \in FlattenModules \X FlattenModules}

FlattenGroups ==
    {Group(Null)} \cup {Group(Some(o)) : o \in FlattenObjects}

FlattenSchemas == SeqUpTo(FlattenGroups, MaxGroups)

----------------------------------------------------------------------------
(* The calls.                                                              *)

NothingCalled ==
    /\ pc = "start"
    /\ jniType = NotCalled
    /\ returnJniType = NotCalled
    /\ kind = NotCalled
    /\ signature = NotCalled
    /\ implementation = NotCalled
    /\ files = NotCalled

CallTranslateParamTypeToJniType ==
    /\ pc = "start"
    /\ jniType' = translateParamTypeToJniType(param, aliases)
    /\ pc' = "translateParamTypeToJniType"
    /\ UNCHANGED <<param, typeAnnotation, aliases, property, schema,
                   returnJniType, kind, signature, implementation, files>>

CallTranslateReturnTypeToJniType ==
    /\ pc = "start"
    /\ returnJniType' = translateReturnTypeToJniType(typeAnnotation)
    /\ pc' = "translateReturnTypeToJniType"
    /\ UNCHANGED <<param, typeAnnotation, aliases, property, schema,
                   jniType, kind, signature, implementation, files>>

CallTranslateReturnTypeToKind ==
    /\ pc = "start"
    /\ kind' = translateReturnTypeToKind(typeAnnotation)
    /\ pc' = "translateReturnTypeToKind"
    /\ UNCHANGED <<param, typeAnnotation, aliases, property, schema,
                   jniType, returnJniType, signature, implementation, files>>

CallTranslateMethodTypeToJniSignature ==
    /\ pc = "start"
    /\ signature' = translateMethodTypeToJniSignature(property, aliases)
    /\ pc' = "translateMethodTypeToJniSignature"
    /\ UNCHANGED <<param, typeAnnotation, aliases, property, schema,
                   jniType, returnJniType, kind, implementation, files>>

CallTranslateMethodForImplementation ==
    /\ pc = "start"
    /\ implementation' = translateMethodForImplementation(property, aliases)
    /\ pc' = "translateMethodForImplementation"
    /\ UNCHANGED <<param, typeAnnotation, aliases, property, schema,
                   jniType, returnJniType, kind, signature, files>>

Generate ==
    /\ pc = "start"
    /\ files' = generate(schema)
    /\ pc' = "generate"
    /\ UNCHANGED <<param, typeAnnotation, aliases, property, schema,
                   jniType, returnJniType, kind, signature, implementation>>

----------------------------------------------------------------------------
(* Specifications.                                                         *)

(* generate() on one group of one or two modules.                          *)
Init ==
    /\ NothingCalled
    /\ schema \in Schemas
    /\ param = DefaultParam
    /\ typeAnnotation = DefaultReturn
    /\ aliases = NoAliases
    /\ property = DefaultMethod

Next == Generate

Spec == Init /\ [][Next]_vars

(* generate() on several groups that may define a module name twice.       *)
InitFlatten ==
    /\ NothingCalled
    /\ schema \in FlattenSchemas
    /\ param = DefaultParam
    /\ typeAnnotation = DefaultReturn
    /\ aliases = NoAliases
    /\ property = DefaultMethod

SpecFlatten == InitFlatten /\ [][Next]_vars

(* The two method-level translators on one method.                         *)
InitSignature ==
    /\ NothingCalled
    /\ property \in SignatureMethods
    /\ aliases \in SignatureAliasTables
    /\ schema = <<>>
    /\ param = DefaultParam
    /\ typeAnnotation = DefaultReturn

NextSignature ==
    \/ CallTranslateMethodTypeToJniSignature
    \/ CallTranslateMethodForImplementation

SpecSignature == InitSignature /\ [][NextSignature]_vars

(* The three type translators on one parameter or one return annotation.   *)
InitTranslate ==
    /\ NothingCalled
    /\ \/ /\ param \in TranslateParams
          /\ aliases \in AliasTables
          /\ typeAnnotation = DefaultReturn
       \/ /\ param = DefaultParam
          /\ aliases = NoAliases
          /\ typeAnnotation \in TranslateReturns
    /\ schema = <<>>
    /\ property = DefaultMethod

NextTranslate ==
    \/ CallTranslateParamTypeToJniType
    \/ CallTranslateReturnTypeToJniType
    \/ CallTranslateReturnTypeToKind

SpecTranslate == InitTranslate /\ [][NextTranslate]_vars

----------------------------------------------------------------------------
(* Properties of translateMethodTypeToJniSignature (SpecSignature).        *)

SignatureReturned ==
    pc = "translateMethodTypeToJniSignature" /\ signature.ok

DeclaredParams == property.typeAnnotation.params

DeclaredReturn == property.typeAnnotation.returnTypeAnnotation

ReturnsPromise == DeclaredReturn.type = "GenericPromiseTypeAnnotation"

(* The tokens a descriptor is expected to list between its parentheses:    *)
(* one per declared parameter, then the promise handle for a promise       *)
(* return.                                                                 *)
ExpectedParamTokens ==
    [i \in 1..Len(DeclaredParams) |->
        translateParamTypeToJniType(DeclaredParams[i], aliases).value]
    \o (IF ReturnsPromise THEN <<JNI_Promise>> ELSE <<>>)

(* The return-position token of the declared return, void for a promise.   *)
DeclaredReturnToken ==
    IF ReturnsPromise THEN JNI_V
    ELSE translateReturnTypeToJniType(DeclaredReturn).value

RECURSIVE Flat(_)
Flat(tokens) ==
    IF tokens = <<>> THEN <<>>
    ELSE Flat(SubSeq(tokens, 1, Len(tokens) - 1)) \o tokens[Len(tokens)]

(* C1 as stated: the descriptor is "(" + the declared parameters' tokens   *)
(* (+ the promise token iff promise-returning) + ")" + the return-position *)
(* token of the declared return (void for a promise), for every method.    *)
C1_DescriptorAsStated ==
    SignatureReturned =>
        signature.value =
            <<"(">> \o Flat(ExpectedParamTokens) \o <<")">> \o DeclaredReturnToken

(* C1 amended: the same composition, with Ljava/util/Map; as the return    *)
(* token of a method named getConstants; the descriptor therefore lists    *)
(* declared-parameter-count (+1 iff promise-returning) parameter tokens.   *)
C1_Descriptor ==
    SignatureReturned =>
        /\ Len(ExpectedParamTokens) =
               Len(DeclaredParams) + (IF ReturnsPromise THEN 1 ELSE 0)
        /\ signature.value =
               <<"(">> \o Flat(ExpectedParamTokens) \o <<")">>
               \o (IF property.name = "getConstants" THEN JNI_Map
                   ELSE DeclaredReturnToken)

C1_Witness ==
    /\ SignatureReturned
    /\ property.name = "add"
    /\ ReturnsPromise
    /\ Len(DeclaredParams) = 2
    /\ DeclaredParams[1].typeAnnotation.type = "TypeAliasTypeAnnotation"
    /\ DeclaredParams[2].typeAnnotation.type = "StringTypeAnnotation"

(* The part of a descriptor after its closing parenthesis.                 *)
ReturnTokenOf(descriptor) ==
    LET close == CHOOSE i \in 1..Len(descriptor) : descriptor[i] = ")"
    IN  SubSeq(descriptor, close + 1, Len(descriptor))

(* C5: a method named getConstants always gets the return token            *)
(* Ljava/util/Map;, whatever its declared return; a method with any other  *)
(* name gets the translation of its (promise-adjusted) return annotation,  *)
(* which is never that token.                                              *)
C5_GetConstantsReturnsMap ==
    SignatureReturned =>
        IF property.name = "getConstants"
        THEN ReturnTokenOf(signature.value) = JNI_Map
        ELSE /\ ReturnTokenOf(signature.value) = DeclaredReturnToken
             /\ ReturnTokenOf(signature.value) # JNI_Map

C5_Witness ==
    /\ SignatureReturned
    /\ property.name = "getConstants"
    /\ ReturnsPromise
    /\ Len(DeclaredParams) = 1
    /\ ReturnTokenOf(signature.value) = JNI_Map

(* A well-formed JNI type descriptor: V, Z or D, or L...; with a single    *)
(* terminating semicolon.                                                  *)
WellFormedToken(token) ==
    \/ token \in {<<"V">>, <<"Z">>, <<"D">>}
    \/ /\ Len(token) >= 2
       /\ token[1] = "L"
       /\ token[Len(token)] = ";"
       /\ \A i \in 1..(Len(token) - 1) : token[i] # ";"

RECURSIVE SplitTokens(_)
(* A run of JNI type descriptors read left to right, as a JVM reads it: a  *)
(* primitive letter is one token, L runs to the next semicolon; what       *)
(* cannot be read stays as one last piece.                                 *)
SplitTokens(text) ==
    IF text = <<>> THEN <<>>
    ELSE IF text[1] \in {"V", "Z", "D"}
    THEN <<SubSeq(text, 1, 1)>> \o SplitTokens(Tail(text))
    ELSE IF text[1] = "L" /\ \E i \in 1..Len(text) : text[i] = ";"
    THEN LET end == CHOOSE i \in 1..Len(text) :
                        /\ text[i] = ";"
                        /\ \A j \in 1..(i - 1) : text[j] # ";"
         IN  <<SubSeq(text, 1, end)>> \o SplitTokens(SubSeq(text, end + 1, Len(text)))
    ELSE <<text>>

(* The text between the parentheses of a descriptor.                       *)
ParamPartOf(descriptor) ==
    LET close == CHOOSE i \in 1..Len(descriptor) : descriptor[i] = ")"
    IN  SubSeq(descriptor, 2, close - 1)

(* C9: every token of a descriptor is a well-formed JNI type descriptor,   *)
(* and the descriptor splits back into exactly the tokens it was built     *)
(* from.                                                                   *)
C9_WellFormedTokens ==
    SignatureReturned =>
        /\ \A i \in 1..Len(ExpectedParamTokens) :
               WellFormedToken(ExpectedParamTokens[i])
        /\ WellFormedToken(ReturnTokenOf(signature.value))
        /\ SplitTokens(ParamPartOf(signature.value)) = ExpectedParamTokens

----------------------------------------------------------------------------
(* Properties of the type translators (SpecTranslate).                     *)

ParamTranslated == pc = "translateParamTypeToJniType"

ReturnTranslated == pc = "translateReturnTypeToJniType"

IsAliasParam == param.typeAnnotation.type = "TypeAliasTypeAnnotation"

(* The same parameter with the alias target written in place of the alias  *)
(* reference.                                                              *)
InlinedParam ==
    Param(param.name, param.nullable, aliases[param.typeAnnotation.name])

InlineNullableBoolean ==
    Param("flag", TRUE, Annotation("BooleanTypeAnnotation", ""))

SameResult(r1, r2) ==
    /\ r1.ok = r2.ok
    /\ r1.ok => r1.value = r2.value
    /\ ~r1.ok => r1.error = r2.error

(* C6: a parameter typed by an alias gets the result of the same parameter *)
(* with the alias target written inline; a nullable parameter whose alias  *)
(* resolves to a boolean gets the token of an inline nullable boolean; an  *)
(* alias name missing from the table is a failure.                         *)
C6_AliasSameAsInline ==
    (ParamTranslated /\ IsAliasParam) =>
        IF param.typeAnnotation.name \in DOMAIN aliases
        THEN /\ SameResult(jniType,
                           translateParamTypeToJniType(InlinedParam, NoAliases))
             /\ (param.nullable
                 /\ aliases[param.typeAnnotation.name].type = "BooleanTypeAnnotation")
                    => /\ jniType.ok
                       /\ jniType.value =
                              translateParamTypeToJniType(InlineNullableBoolean,
                                                          NoAliases).value
        ELSE ~jniType.ok

C6_Witness ==
    /\ ParamTranslated
    /\ IsAliasParam
    /\ param.nullable
    /\ "T" \in DOMAIN aliases
    /\ aliases["T"].type = "BooleanTypeAnnotation"
    /\ jniType.ok
    /\ jniType.value = JNI_Boolean

ReferenceTags ==
    {"GenericObjectTypeAnnotation", "ObjectTypeAnnotation",
     "ArrayTypeAnnotation", "FunctionTypeAnnotation"}

(* C8 as stated: a nullable array, object or function/callback annotation  *)
(* fails to translate, in parameter and in return position.                *)
C8_NullableReferenceFails ==
    /\ (ParamTranslated /\ param.nullable
        /\ param.typeAnnotation.type \in ReferenceTags) => ~jniType.ok
    /\ (ReturnTranslated /\ typeAnnotation.nullable
        /\ typeAnnotation.type \in ReferenceTags) => ~returnJniType.ok

ReadableToken(tag) ==
    CASE tag = "ArrayTypeAnnotation" -> JNI_ReadableArray
      [] tag = "FunctionTypeAnnotation" -> JNI_Callback
      [] OTHER -> JNI_ReadableMap

WritableToken(tag) ==
    IF tag = "ArrayTypeAnnotation" THEN JNI_WritableArray ELSE JNI_WritableMap

(* C8 amended: a nullable array, object or function/callback parameter,    *)
(* and a nullable array or object return, translate to the token of the    *)
(* non-nullable annotation; a function/callback return fails whether       *)
(* nullable or not.                                                        *)
C8_NullableReferenceSameToken ==
    /\ (ParamTranslated /\ param.typeAnnotation.type \in ReferenceTags) =>
           /\ jniType.ok
           /\ jniType.value = ReadableToken(param.typeAnnotation.type)
    /\ (ReturnTranslated /\ typeAnnotation.type \in ReferenceTags) =>
           IF typeAnnotation.type = "FunctionTypeAnnotation"
           THEN ~returnJniType.ok
           ELSE /\ returnJniType.ok
                /\ returnJniType.value = WritableToken(typeAnnotation.type)

C8_Witness ==
    /\ ParamTranslated
    /\ param.nullable
    /\ param.typeAnnotation.type = "ArrayTypeAnnotation"
    /\ jniType.ok
    /\ jniType.value = JNI_ReadableArray

----------------------------------------------------------------------------
(* Properties of generate() (Spec and SpecFlatten).                        *)

Generated == pc = "generate"

Succeeded == Generated /\ files.ok

RECURSIVE AllDefinitions(_)
(* Every [module name, definition] of the schema, group after group.       *)
AllDefinitions(groups) ==
    IF groups = <<>> THEN <<>>
    ELSE (IF Head(groups).nativeModules = Null
          THEN <<>>
          ELSE Head(groups).nativeModules[1])
         \o AllDefinitions(Tail(groups))

RECURSIVE FirstSeenNames(_)
(* The module names in the order of their first definition.                *)
FirstSeenNames(defs) ==
    IF defs = <<>> THEN <<>>
    ELSE LET before == FirstSeenNames(SubSeq(defs, 1, Len(defs) - 1))
             name == defs[Len(defs)].key
         IN  IF \E i \in 1..Len(before) : before[i] = name
             THEN before
             ELSE Append(before, name)

(* The definition of a module name that comes last in the schema.          *)
LastDefinition(defs, name) ==
    defs[CHOOSE i \in 1..Len(defs) :
            /\ defs[i].key = name
            /\ \A j \in (i + 1)..Len(defs) : defs[j].key # name].value

KeptNames == FirstSeenNames(AllDefinitions(schema))

Kept(name) == LastDefinition(AllDefinitions(schema), name)

(* The method named getConstants whose return is a structural object with  *)
(* an empty property list.                                                 *)
ZeroPropertyGetConstants(m) ==
    /\ m.name = "getConstants"
    /\ m.typeAnnotation.returnTypeAnnotation.type = "ObjectTypeAnnotation"
    /\ m.typeAnnotation.returnTypeAnnotation.properties = Some(<<>>)

DigitValue(c) ==
    CASE c = "0" -> 0 [] c = "1" -> 1 [] c = "2" -> 2 [] c = "3" -> 3
      [] c = "4" -> 4 [] c = "5" -> 5 [] c = "6" -> 6 [] c = "7" -> 7
      [] c = "8" -> 8 [] c = "9" -> 9

RECURSIVE ParseNat(_)
(* The number a decimal numeral denotes.                                   *)
ParseNat(text) ==
    IF Len(text) = 1 THEN DigitValue(text[1])
    ELSE 10 * ParseNat(SubSeq(text, 1, Len(text) - 1))
         + DigitValue(text[Len(text)])

(* C2: the parameter count of a registration entry is the number of        *)
(* declared parameters; for a promise-returning method the descriptor of   *)
(* its thunk lists one parameter token more than the entry counts.         *)
C2_ArityCountsDeclaredParams ==
    Succeeded =>
        \A i \in 1..Len(files.value.modules) :
            LET out == files.value.modules[i]
                methods == Kept(out.moduleName).properties
            IN  /\ Len(out.propertiesMap) = Len(methods)
                /\ \A j \in 1..Len(methods) :
                       out.propertiesMap[j] # Null =>
                           LET entry == out.propertiesMap[j][1]
                               m == methods[j]
                           IN  /\ entry.propertyName = m.name
                               /\ ParseNat(entry.argsCount) =
                                      Len(m.typeAnnotation.params)
                               /\ isPromiseReturn(
                                      m.typeAnnotation.returnTypeAnnotation) =>
                                      /\ out.methodInvokers[j] # Null
                                      /\ Len(SplitTokens(ParamPartOf(
                                             out.methodInvokers[j][1].signature)))
                                         = Len(m.typeAnnotation.params) + 1

C2_Witness ==
    /\ Succeeded
    /\ \E i \in 1..Len(files.value.modules) :
           LET out == files.value.modules[i]
           IN  \E j \in 1..Len(out.propertiesMap) :
                   /\ out.propertiesMap[j] =
                          Some([propertyName |-> "fetch", argsCount |-> <<"1">>])
                   /\ out.methodInvokers[j] # Null
                   /\ out.methodInvokers[j][1].signature =
                          <<"(">> \o JNI_String \o JNI_Promise \o <<")">> \o JNI_V

(* C3: in a successful run every method of every emitted module has an     *)
(* invocation thunk exactly when it has a registration entry, and it has   *)
(* neither exactly when it is the zero-property getConstants.              *)
C3_ThunkIffEntry ==
    Succeeded =>
        /\ Len(files.value.modules) = Len(KeptNames)
        /\ \A i \in 1..Len(files.value.modules) :
               LET out == files.value.modules[i]
                   methods == Kept(out.moduleName).properties
               IN  /\ Len(out.methodInvokers) = Len(methods)
                   /\ Len(out.propertiesMap) = Len(methods)
                   /\ \A j \in 1..Len(methods) :
                          /\ (out.methodInvokers[j] = Null)
                                 <=> (out.propertiesMap[j] = Null)
                          /\ (out.methodInvokers[j] = Null)
                                 <=> ZeroPropertyGetConstants(methods[j])
                          /\ out.methodInvokers[j] # Null =>
                                 out.methodInvokers[j][1].propertyName
                                     = out.propertiesMap[j][1].propertyName

C3_Witness ==
    /\ Succeeded
    /\ \E i \in 1..Len(files.value.modules) :
           LET out == files.value.modules[i]
               methods == Kept(out.moduleName).properties
           IN  /\ Len(methods) = 2
               /\ ZeroPropertyGetConstants(methods[1])
               /\ methods[2].name = "getConstants"
               /\ out.methodInvokers[1] = Null
               /\ out.propertiesMap[1] = Null
               /\ out.methodInvokers[2] # Null
               /\ out.propertiesMap[2] # Null

(* The tag a parameter has after alias resolution (the alias tag itself    *)
(* when the alias is not in the table).                                    *)
ResolvedTag(p, aliasTable) ==
    IF /\ p.typeAnnotation.type = "TypeAliasTypeAnnotation"
       /\ p.typeAnnotation.name \in DOMAIN aliasTable
    THEN aliasTable[p.typeAnnotation.name].type
    ELSE p.typeAnnotation.type

GrammarTags == ClosedTags \cup {"TypeAliasTypeAnnotation"}

UnknownParamTags(m, aliasTable) ==
    {ResolvedTag(m.typeAnnotation.params[k], aliasTable) :
        k \in 1..Len(m.typeAnnotation.params)} \ GrammarTags

UnknownReturnTags(m) ==
    {m.typeAnnotation.returnTypeAnnotation.type} \ GrammarTags

(* The kept methods, as <<module index, method index>> in generation       *)
(* order.                                                                  *)
KeptMethodIndices ==
    UNION {{<<i, j>> : j \in 1..Len(Kept(KeptNames[i]).properties)} :
              i \in 1..Len(KeptNames)}

KeptMethod(ij) == Kept(KeptNames[ij[1]]).properties[ij[2]]

KeptAliases(ij) == Kept(KeptNames[ij[1]]).aliases

(* C4 as stated: an unknown tag on any parameter or return of any kept     *)
(* method makes generate() throw, and the error names an unknown tag of    *)
(* the schema.                                                             *)
C4_UnknownTagAlwaysThrows ==
    (/\ Generated
     /\ \E ij \in KeptMethodIndices :
            UnknownParamTags(KeptMethod(ij), KeptAliases(ij))
            \cup UnknownReturnTags(KeptMethod(ij)) # {})
    => /\ ~files.ok
       /\ \E ij \in KeptMethodIndices :
              files.error.found \in
                  UnknownParamTags(KeptMethod(ij), KeptAliases(ij))
                  \cup UnknownReturnTags(KeptMethod(ij))

(* What translating one method rejects, if anything: nothing for the       *)
(* zero-property getConstants, else the return annotation when no dispatch *)
(* kind exists for it, else the first parameter that has no token.         *)
Rejection(m, aliasTable) ==
    LET ret == m.typeAnnotation.returnTypeAnnotation
        params == m.typeAnnotation.params
        tagOf(k) == ResolvedTag(params[k], aliasTable)
        nameOf(k) ==
            IF params[k].typeAnnotation.type = "TypeAliasTypeAnnotation"
               /\ params[k].typeAnnotation.name \in DOMAIN aliasTable
            THEN aliasTable[params[k].typeAnnotation.name].name
            ELSE params[k].typeAnnotation.name
        badParams ==
            {k \in 1..Len(params) :
                \/ tagOf(k) \notin ClosedTags
                \/ tagOf(k) = "ReservedFunctionValueTypeAnnotation"
                   /\ nameOf(k) # "RootTag"}
        first == CHOOSE k \in badParams : \A l \in badParams : k <= l
    IN  IF ZeroPropertyGetConstants(m) THEN NoError
        ELSE IF ret.type = "ReservedFunctionValueTypeAnnotation"
                /\ ret.name # "RootTag"
        THEN [message |-> "Invalid ReservedFunctionValueTypeName name, got",
              found |-> ret.name]
        ELSE IF ret.type \notin (ClosedTags \ {"FunctionTypeAnnotation"})
        THEN [message |-> "Unknown prop type for returning value, found:",
              found |-> ret.type]
        ELSE IF badParams = {} THEN NoError
        ELSE IF tagOf(first) = "TypeAliasTypeAnnotation"
        THEN [message |-> "Unable to find type annotation for alias",
              found |-> params[first].typeAnnotation.name]
        ELSE IF tagOf(first) = "ReservedFunctionValueTypeAnnotation"
        THEN [message |-> "Invalid ReservedFunctionValueTypeName name, got",
              found |-> nameOf(first)]
        ELSE [message |-> "Unknown prop type for method arg, found:",
              found |-> tagOf(first)]

Rejecting ==
    {ij \in KeptMethodIndices :
        Rejection(KeptMethod(ij), KeptAliases(ij)) # NoError}

FirstRejecting ==
    CHOOSE ij \in Rejecting :
        \A other \in Rejecting :
            \/ ij[1] < other[1]
            \/ ij[1] = other[1] /\ ij[2] <= other[2]

(* C4 amended: an unknown tag on the return of any kept method, or on a    *)
(* parameter of any kept method other than the zero-property getConstants, *)
(* makes generate() throw and leave no file; the error is the rejection of *)
(* the first method, in generation order, whose translation rejects        *)
(* anything, and it names what that translation rejected.                  *)
C4_UnknownTagThrows ==
    (/\ Generated
     /\ \E ij \in KeptMethodIndices :
            \/ UnknownReturnTags(KeptMethod(ij)) # {}
            \/ /\ ~ZeroPropertyGetConstants(KeptMethod(ij))
               /\ UnknownParamTags(KeptMethod(ij), KeptAliases(ij)) # {})
    => /\ ~files.ok
       /\ files.value = <<>>
       /\ Rejecting # {}
       /\ files.error =
              Rejection(KeptMethod(FirstRejecting), KeptAliases(FirstRejecting))

C4_Witness ==
    /\ Generated
    /\ ~files.ok
    /\ Len(KeptNames) = 2
    /\ Rejecting = {<<2, 2>>}
    /\ KeptMethod(<<2, 2>>).name = "send"
    /\ files.error = [message |-> "Unknown prop type for method arg, found:",
                      found |-> UnknownTag]

RECURSIVE EmittedNames(_)
(* The method names of the non-empty pieces of a joined block, in text     *)
(* order.                                                                  *)
EmittedNames(pieces) ==
    IF pieces = <<>> THEN <<>>
    ELSE (IF Head(pieces) = Null
          THEN <<>>
          ELSE <<Head(pieces)[1].propertyName>>)
         \o EmittedNames(Tail(pieces))

RECURSIVE EmittingNames(_)
(* The names of the declared methods that emit, in declaration order.      *)
EmittingNames(methods) ==
    IF methods = <<>> THEN <<>>
    ELSE (IF ZeroPropertyGetConstants(Head(methods))
          THEN <<>>
          ELSE <<Head(methods).name>>)
         \o EmittingNames(Tail(methods))

C10_LastDefinitionWins ==
    Generated =>
        IF files.ok
        THEN /\ Len(files.value.modules) = Len(KeptNames)
             /\ Len(files.value.moduleLookup) = Len(KeptNames)
             /\ \A i, j \in 1..Len(files.value.moduleLookup) :
                    i # j => /\ files.value.moduleLookup[i]
                                    # files.value.moduleLookup[j]
                             /\ files.value.modules[i].moduleName
                                    # files.value.modules[j].moduleName
             /\ \A i \in 1..Len(files.value.modules) :
                    LET out == files.value.modules[i]
                        last == Kept(out.moduleName)
                    IN  /\ out.methodInvokers =
                               translatedMethods(last.properties, last.aliases).value
                        /\ EmittedNames(out.propertiesMap)
                               = EmittingNames(last.properties)
        ELSE Rejecting # {}

C10_Witness ==
    /\ Succeeded
    /\ Len(schema) = 2
    /\ Len(AllDefinitions(schema)) = 3
    /\ KeptNames = <<"A", "B">>
    /\ AllDefinitions(schema)[1] = [key |-> "A", value |-> ThrowingModule]
    /\ AllDefinitions(schema)[3].key = "A"
    /\ Len(files.value.modules) = 2
    /\ EmittedNames(files.value.modules[1].methodInvokers)
           = <<"getConstants", "fetch">>
====
